---------------------------- MODULE Spec2Model ----------------------------
(***************************************************************************)
(* Model of the migrate-scaffold-ui-imports codemod                        *)
(* (src/rollup.config.js, lines 86-548).                                   *)
(*                                                                         *)
(* Text is a sequence of tokens.  A token is an atomic piece of text:      *)
(*   keywords      "import" "export" "from" "as" "type"                    *)
(*   name pieces   "Address" "Input" "Base" "Ether" "Balance" "Foo" "Bar"  *)
(*                 "constructor" "undefined"                               *)
(*   whitespace    " " "\n"                                                *)
(*   punctuation   "{" "}" "," ";" "/" and the two quotes                  *)
(*   path pieces   "~~/components/scaffold-eth" "@scaffold-ui/components"  *)
(*                 "styles.css"                                            *)
(* No token is a prefix of another one and none of the literals the code   *)
(* searches for ("import", "from", "as", "type ", "~~/components/...",     *)
(* "{", "}", ",") occurs inside a token or across two tokens, so a search  *)
(* or a regular expression of the code finds on the characters exactly     *)
(* what the operators below find on the tokens.  A name such as InputBase  *)
(* is the two tokens "Input" "Base": the legacy path                       *)
(* ~~/components/scaffold-eth/Input is a prefix of .../InputBase on the    *)
(* characters, and it is one on the tokens too.                            *)
(***************************************************************************)
EXTENDS Integers, Sequences, FiniteSets, TLC

VARIABLES
    src,           \* the input as it was generated (kept to state the claims)
    content,       \* transformContent: parameter content
    updated,       \* transformContent: let updated
    summary,       \* transformContent: const summary
    pc,            \* position in transformContent / analyzeImportStatement
    run,           \* 1: first run of the codemod on the text, 2: run on its own output
    analysis,      \* analyzeImportStatement: the ImportAnalysis returned
    files,         \* main: contents on disk of filesToProcess before the run
    disk,          \* contents on disk now
    dryRun,        \* main: const dryRun
    idx,           \* main: position of the for loop in filesToProcess
    filesChanged,  \* main: let filesChanged
    changeSummary, \* main: const changeSummary
    writeCalls,    \* the files fs.writeFile has been called on, in order
    mpc            \* position in main

vars == <<src, content, updated, summary, pc, run, analysis,
          files, disk, dryRun, idx, filesChanged, changeSummary, writeCalls, mpc>>

-----------------------------------------------------------------------------
(* Tokens *)

DQ == "\""
SQ == "'"
SP == " "
NL == "\n"

WhitespaceTokens == {SP, NL}
QuoteTokens == {DQ, SQ}
WordTokens == {"import", "export", "from", "as", "type", "Address", "Input",
               "Base", "Ether", "Balance", "Foo", "Bar", "constructor", "undefined"}

IsWs(t) == t \in WhitespaceTokens
IsQuote(t) == t \in QuoteTokens
IsWord(t) == t \in WordTokens

Min(S) == CHOOSE x \in S : \A y \in S : x <= y
Max(S) == CHOOSE x \in S : \A y \in S : x >= y

RECURSIVE Concat(_)
Concat(ss) == IF ss = <<>> THEN <<>> ELSE Head(ss) \o Concat(Tail(ss))

-----------------------------------------------------------------------------
(* String primitives of the JavaScript runtime, on token sequences *)

\* s.slice(from) with 1-based from
SliceFrom(s, from) == SubSeq(s, from, Len(s))

\* index of the first token at or after i that is not whitespace (Len(s)+1: none)
SkipWs(s, i) ==
    Min({j \in i..(Len(s) + 1) : j = Len(s) + 1 \/ ~IsWs(s[j])})

\* index of the last token at or before i that is not whitespace (0: none)
SkipWsBack(s, i) ==
    Max({j \in 0..i : j = 0 \/ ~IsWs(s[j])})

\* String.prototype.trim
Trim(s) == SubSeq(s, SkipWs(s, 1), SkipWsBack(s, Len(s)))

\* String.prototype.indexOf, 1-based; 0 when p does not occur
IndexOf(s, p) ==
    LET I == {i \in 1..(Len(s) - Len(p) + 1) : SubSeq(s, i, i + Len(p) - 1) = p}
    IN IF I = {} THEN 0 ELSE Min(I)

\* String.prototype.includes
Includes(s, p) == IndexOf(s, p) # 0

\* String.prototype.startsWith
StartsWith(s, p) == Len(s) >= Len(p) /\ SubSeq(s, 1, Len(p)) = p

\* s.replace(p, r) with a string pattern: the first occurrence only
ReplaceFirst(s, p, r) ==
    LET At(i) == IF i = 0 THEN s
                 ELSE SubSeq(s, 1, i - 1) \o r \o SubSeq(s, i + Len(p), Len(s))
    IN At(IndexOf(s, p))

\* s.split(p).join(r): every occurrence, left to right, without overlap
RECURSIVE SplitJoin(_, _, _)
SplitJoin(s, p, r) ==
    LET At(i) == IF i = 0 THEN s
                 ELSE SubSeq(s, 1, i - 1) \o r
                      \o SplitJoin(SubSeq(s, i + Len(p), Len(s)), p, r)
    IN At(IndexOf(s, p))

\* s.replace(/\s+/g, " "): each run of whitespace becomes one space
CollapseWs(s) ==
    LET marked == [i \in 1..Len(s) |->
                     [token |-> IF IsWs(s[i]) THEN SP ELSE s[i],
                      keep |-> ~IsWs(s[i]) \/ i = 1 \/ ~IsWs(s[i - 1])]]
        kept == SelectSeq(marked, LAMBDA m : m.keep)
    IN [i \in 1..Len(kept) |-> kept[i].token]

-----------------------------------------------------------------------------
(* Static tables *)

LEGACY_PREFIX == <<"~~/components/scaffold-eth">>
COMPONENT_TARGET == <<"@scaffold-ui/components">>

AddressName == <<"Address">>
AddressInputName == <<"Address", "Input">>
EtherInputName == <<"Ether", "Input">>
InputBaseName == <<"Input", "Base">>
BaseInputName == <<"Base", "Input">>
LEGACY_COMPONENT_SPECIFIERS ==
    {AddressName, AddressInputName, <<"Balance">>, EtherInputName, InputBaseName,
     BaseInputName}

\* const COMPONENT_SPECIFIER_RENAMES = { InputBase: { newName: "BaseInput", keepAlias: true } }
COMPONENT_SPECIFIER_RENAMES ==
    (InputBaseName :> [newName |-> BaseInputName, keepAlias |-> TRUE])

\* obj[key] on a plain object: its own keys, then the keys every object inherits from
\* Object.prototype ("constructor" stands for them).  An inherited value is a function:
\* truthy, and its newName and keepAlias are undefined.
ObjectPrototypeKeys == {<<"constructor">>}
UndefinedText == <<"undefined">>

PropertyLookup(obj, key) ==
    IF key \in DOMAIN obj
    THEN [found |-> TRUE, newName |-> obj[key].newName, keepAlias |-> obj[key].keepAlias]
    ELSE IF key \in ObjectPrototypeKeys
    THEN [found |-> TRUE, newName |-> UndefinedText, keepAlias |-> FALSE]
    ELSE [found |-> FALSE, newName |-> <<>>, keepAlias |-> FALSE]

PathInput == LEGACY_PREFIX \o <<"/", "Input">>
PathInputAddressInput == LEGACY_PREFIX \o <<"/", "Input", "/", "Address", "Input">>
PathInputEtherInput == LEGACY_PREFIX \o <<"/", "Input", "/", "Ether", "Input">>
PathAddressAddress == LEGACY_PREFIX \o <<"/", "Address", "/", "Address">>
PathAddress == LEGACY_PREFIX \o <<"/", "Address">>

\* a variant of the list with the shorter legacy strings first
RawReplacementsShortestFirst ==
    << <<PathInput, COMPONENT_TARGET>>,
       <<PathAddress, COMPONENT_TARGET>>,
       <<PathInputAddressInput, COMPONENT_TARGET>>,
       <<PathInputEtherInput, COMPONENT_TARGET>>,
       <<PathAddressAddress, COMPONENT_TARGET>> >>

RAW_PATH_REPLACEMENTS ==
    << <<PathInputAddressInput, COMPONENT_TARGET>>,
       <<PathInputEtherInput, COMPONENT_TARGET>>,
       <<PathInput, COMPONENT_TARGET>>,
       <<PathAddressAddress, COMPONENT_TARGET>>,
       <<PathAddress, COMPONENT_TARGET>> >>

-----------------------------------------------------------------------------
(* IMPORT_REGEX and EXPORT_FROM_REGEX:                                      *)
(*   /import\s+[\s\S]*?from\s+["']([^"']+)["'];?/g  (and the same with export) *)

\* the first quote after token k (Len(s)+1: none)
NextQuote(s, k) ==
    Min({m \in (k + 1)..(Len(s) + 1) : m = Len(s) + 1 \/ IsQuote(s[m])})

\* from\s+["']([^"']+)["'];? tried at token j: the opening quote is at k, the path
\* runs to the next quote, which exists and does not follow at once
FromTailOk(s, j) ==
    LET OpenAt(k) ==
            /\ k <= Len(s) /\ IsQuote(s[k])
            /\ LET CloseAt(q) == k + 2 <= q /\ q <= Len(s)
               IN CloseAt(NextQuote(s, k))
    IN /\ s[j] = "from"
       /\ j + 1 <= Len(s) /\ IsWs(s[j + 1])
       /\ OpenAt(SkipWs(s, j + 1))

\* the match that starts at i and whose tail starts at j: [first, last, full, path]
FromTail(s, i, j) ==
    LET OpenAt(k) ==
            LET CloseAt(q) ==
                    LET EndAt(last) ==
                            [first |-> i, last |-> last, full |-> SubSeq(s, i, last),
                             path |-> SubSeq(s, k + 1, q - 1)]
                    IN EndAt(IF q + 1 <= Len(s) /\ s[q + 1] = ";" THEN q + 1 ELSE q)
            IN CloseAt(NextQuote(s, k))
    IN OpenAt(SkipWs(s, j + 1))

\* the keyword at i, \s+, then the non-greedy body: the tails that match, of which
\* the regular expression takes the first
StatementTails(s, keyword, i) ==
    IF s[i] = keyword /\ i + 1 <= Len(s) /\ IsWs(s[i + 1])
    THEN {j \in (i + 2)..Len(s) : FromTailOk(s, j)}
    ELSE {}

\* the leftmost match at or after pos: [found, first, last, full, path]
NoMatch == [found |-> FALSE, first |-> 0, last |-> 0, full |-> <<>>, path |-> <<>>]

FirstMatchFrom(s, keyword, pos) ==
    LET Starts(I) ==
            IF I = {} THEN NoMatch
            ELSE LET At(i) == [found |-> TRUE] @@ FromTail(s, i, Min(StatementTails(s, keyword, i)))
                 IN At(Min(I))
    IN Starts({i \in pos..Len(s) : StatementTails(s, keyword, i) # {}})

\* matchAll from position pos on: leftmost match, then on after its end
RECURSIVE MatchAllFrom(_, _, _)
MatchAllFrom(s, keyword, pos) ==
    LET With(m) == IF ~m.found THEN <<>>
                   ELSE <<m>> \o MatchAllFrom(s, keyword, m.last + 1)
    IN With(FirstMatchFrom(s, keyword, pos))

IMPORT_REGEX(s) == MatchAllFrom(s, "import", 1)
EXPORT_FROM_REGEX(s) == MatchAllFrom(s, "export", 1)

-----------------------------------------------------------------------------
(* determineTransform *)

NoTransform == [defined |-> FALSE, newPath |-> <<>>, renameSpecifiers |-> <<>>,
                description |-> ""]

ComponentsTransform ==
    [defined |-> TRUE, newPath |-> COMPONENT_TARGET,
     renameSpecifiers |-> COMPONENT_SPECIFIER_RENAMES,
     description |-> "components import migrated to @scaffold-ui/components"]

NestedLegacyPaths ==
    {PathInput, PathInputAddressInput, PathInputEtherInput, PathAddressAddress,
     PathAddress}

\* a variant that resolves the bare path without looking at the specifiers
determineTransformAnyBare(legacyPath, specifiers) ==
    IF legacyPath = LEGACY_PREFIX \/ legacyPath \in NestedLegacyPaths
    THEN ComponentsTransform
    ELSE NoTransform

determineTransform(legacyPath, specifiers) ==
    IF ~StartsWith(legacyPath, LEGACY_PREFIX) THEN NoTransform
    ELSE IF legacyPath = LEGACY_PREFIX
    THEN IF \E n \in 1..Len(specifiers) : specifiers[n] \in LEGACY_COMPONENT_SPECIFIERS
         THEN ComponentsTransform
         ELSE NoTransform
    ELSE IF legacyPath \in NestedLegacyPaths THEN ComponentsTransform
    ELSE NoTransform

-----------------------------------------------------------------------------
(* parseNamedImports *)

\* one NamedImportEntry; a filler entry has no spec (hasSpec FALSE) and only raw
FillerEntry(full) ==
    [raw |-> full, hasSpec |-> FALSE, isType |-> FALSE, imported |-> <<>>,
     hasAlias |-> FALSE, alias |-> <<>>, leadingWhitespace |-> <<>>,
     trailingWhitespace |-> <<>>, comma |-> <<>>]

\* rest.match(/\s+as\s+/): 0, or the index of the first match
AsMatchIndex(rest) ==
    LET First(I) == IF I = {} THEN 0 ELSE Min(I)
        AsAt(r) == r + 1 <= Len(rest) /\ rest[r] = "as" /\ IsWs(rest[r + 1])
    IN First({i \in 1..Len(rest) : IsWs(rest[i]) /\ AsAt(SkipWs(rest, i))})

\* the index after the match of /\s+as\s+/ that starts at i
AsMatchEnd(rest, i) == SkipWs(rest, SkipWs(rest, i) + 1)

\* let rest = trimmed; if (rest.startsWith("type ")) rest = rest.slice(5).trim()
StripTypeMarker(trimmed) ==
    IF StartsWith(trimmed, <<"type", SP>>) THEN Trim(SliceFrom(trimmed, 3)) ELSE trimmed

\* the body of the while loop for one match of /([^,]+)(,?)/g
ParseEntry(specText, comma) ==
    LET WithTrimmed(trimmed) ==
            LET WithRest(at, rest) ==
                    LET WithAs(asAt) ==
                            [raw |-> specText \o comma,
                             hasSpec |-> TRUE,
                             isType |-> StartsWith(trimmed, <<"type", SP>>),
                             imported |-> IF asAt # 0
                                          THEN Trim(SubSeq(rest, 1, asAt - 1))
                                          ELSE rest,
                             hasAlias |-> asAt # 0,
                             alias |-> IF asAt # 0
                                       THEN Trim(SliceFrom(rest, AsMatchEnd(rest, asAt)))
                                       ELSE <<>>,
                             leadingWhitespace |-> SubSeq(specText, 1, at - 1),
                             trailingWhitespace |->
                                 SliceFrom(specText, at + Len(trimmed)),
                             comma |-> comma]
                    IN WithAs(AsMatchIndex(rest))
            IN IF trimmed = <<>> THEN FillerEntry(specText \o comma)
               ELSE WithRest(IndexOf(specText, trimmed), StripTypeMarker(trimmed))
    IN WithTrimmed(Trim(specText))

\* the first comma at or after i (Len(c)+1: none)
NextComma(c, i) == Min({m \in i..(Len(c) + 1) : m = Len(c) + 1 \/ c[m] = ","})

\* matcher.exec from position pos on: a comma with no text before it matches nothing
RECURSIVE ParseEntriesFrom(_, _)
ParseEntriesFrom(c, pos) ==
    LET TextAt(I) ==
            IF I = {} THEN <<>>
            ELSE LET Match(i, j) ==
                         IF j <= Len(c)
                         THEN <<ParseEntry(SubSeq(c, i, j - 1), <<",">>)>>
                              \o ParseEntriesFrom(c, j + 1)
                         ELSE <<ParseEntry(SubSeq(c, i, j - 1), <<>>)>>
                 IN Match(Min(I), NextComma(c, Min(I)))
    IN TextAt({i \in pos..Len(c) : c[i] # ","})

SpecifiersOf(entries) ==
    LET Named(S) == [n \in 1..Len(S) |-> S[n].imported]
    IN Named(SelectSeq(entries, LAMBDA e : e.hasSpec))

parseNamedImports(c) ==
    LET Result(entries) == [entries |-> entries, specifiers |-> SpecifiersOf(entries)]
    IN Result(ParseEntriesFrom(c, 1))

-----------------------------------------------------------------------------
(* buildNamedImport *)

\* the callback of entries.map
BuildEntry(entry, renameMap) ==
    LET WithRule(rule) ==
            LET Emit(imported, hasAlias, alias) ==
                    entry.leadingWhitespace
                    \o (IF entry.isType THEN <<"type", SP>> \o imported ELSE imported)
                    \o (IF hasAlias THEN <<SP, "as", SP>> \o alias ELSE <<>>)
                    \o entry.trailingWhitespace \o entry.comma
            IN Emit(IF rule.found THEN rule.newName ELSE entry.imported,
                    IF rule.found THEN entry.hasAlias \/ rule.keepAlias
                    ELSE entry.hasAlias,
                    IF entry.hasAlias THEN entry.alias ELSE entry.imported)
    IN IF ~entry.hasSpec THEN entry.raw
       ELSE WithRule(PropertyLookup(renameMap, entry.imported))

buildNamedImport(entries, renameMap) ==
    Concat([n \in 1..Len(entries) |-> BuildEntry(entries[n], renameMap)])

-----------------------------------------------------------------------------
(* extractDefaultImport *)

\* the number of word tokens in a row from k on
WordRun(s, k) ==
    Min({n \in 0..(Len(s) - k + 1) : k + n > Len(s) \/ ~IsWord(s[k + n])})

\* /import\s+([A-Za-z_$][\w$]*)\s*(?:,|from)/ tried at token i: the lengths of
\* identifier with which it matches (the greedy match takes the longest)
DefaultImportLengths(s, i) ==
    LET NameAt(k) ==
            LET Follows(a) == a <= Len(s) /\ s[a] \in {",", "from"}
            IN {n \in 1..WordRun(s, k) : Follows(SkipWs(s, k + n))}
    IN IF s[i] = "import" /\ i + 1 <= Len(s) /\ IsWs(s[i + 1])
       THEN NameAt(SkipWs(s, i + 1))
       ELSE {}

NoDefaultImport == [found |-> FALSE, identifier |-> <<>>]

extractDefaultImport(statement) ==
    LET In(sanitized) ==
            LET Starts(I) ==
                    IF I = {} THEN NoDefaultImport
                    ELSE LET Name(k, n) ==
                                 IF SubSeq(sanitized, k, k + n - 1) = <<"type">>
                                 THEN NoDefaultImport
                                 ELSE [found |-> TRUE,
                                       identifier |-> SubSeq(sanitized, k, k + n - 1)]
                         IN Name(SkipWs(sanitized, Min(I) + 1),
                                 Max(DefaultImportLengths(sanitized, Min(I))))
            IN Starts({i \in 1..Len(sanitized) :
                         DefaultImportLengths(sanitized, i) # {}})
    IN In(CollapseWs(statement))

-----------------------------------------------------------------------------
(* analyzeImportStatement *)

\* fullStatement.match(/\{([\s\S]*?)\}/): [found, all, inner]
NamedSectionMatch(s) ==
    LET Open(a) ==
            LET Close(B) ==
                    IF a = 0 \/ B = {}
                    THEN [found |-> FALSE, all |-> <<>>, inner |-> <<>>]
                    ELSE [found |-> TRUE, all |-> SubSeq(s, a, Min(B)),
                          inner |-> SubSeq(s, a + 1, Min(B) - 1)]
            IN Close({b \in (a + 1)..Len(s) : s[b] = "}"})
    IN Open(IndexOf(s, <<"{">>))

NoNamedResult == [entries |-> <<>>, specifiers |-> <<>>]

\* lines 380-391
RewriteStatement(fullStatement, legacyPath, namedSectionMatch, namedResult, transform) ==
    LET PathReplaced(updatedStatement) ==
            IF namedSectionMatch.found
            THEN ReplaceFirst(updatedStatement, namedSectionMatch.all,
                     <<"{">> \o buildNamedImport(namedResult.entries,
                                                 transform.renameSpecifiers)
                     \o <<"}">>)
            ELSE updatedStatement
    IN PathReplaced(ReplaceFirst(fullStatement, legacyPath, transform.newPath))

analyzeImportStatement(fullStatement, legacyPath) ==
    LET Parsed(namedSectionMatch, defaultImport) ==
          LET Named(namedResult) ==
                LET All(specifiers) ==
                      LET Resolved(transform) ==
                            [original |-> fullStatement,
                             updated |-> IF transform.defined
                                         THEN RewriteStatement(fullStatement, legacyPath,
                                                  namedSectionMatch, namedResult,
                                                  transform)
                                         ELSE fullStatement,
                             specifiers |-> specifiers,
                             defaultImport |-> defaultImport,
                             appliedTransform |-> transform]
                      IN Resolved(determineTransform(legacyPath, specifiers))
                IN All(namedResult.specifiers
                       \o (IF defaultImport.found THEN <<defaultImport.identifier>>
                           ELSE <<>>))
          IN Named(IF namedSectionMatch.found
                   THEN parseNamedImports(namedSectionMatch.inner)
                   ELSE NoNamedResult)
    IN Parsed(NamedSectionMatch(fullStatement), extractDefaultImport(fullStatement))

-----------------------------------------------------------------------------
(* transformContent *)

\* the lines pushed on summary, as template strings
ImportLine(transform) == <<"import", " → ", transform.description>>
ExportLine(transform) == <<"export", " → ", transform.description>>
TextLine(legacy, modern) == <<"text", " → ">> \o legacy \o <<" → ">> \o modern

\* the body of the first for loop, for one match
ImportStep(st, match) ==
    LET With(a) ==
            IF a.appliedTransform.defined /\ a.updated # match.full
            THEN [updated |-> ReplaceFirst(st.updated, match.full, a.updated),
                  summary |-> Append(st.summary, ImportLine(a.appliedTransform))]
            ELSE st
    IN With(analyzeImportStatement(match.full, match.path))

\* the body of the second for loop, for one match
ExportStep(st, match) ==
    LET With(transform) ==
            LET Rewritten(rewritten) ==
                    IF rewritten # match.full
                    THEN [updated |-> ReplaceFirst(st.updated, match.full, rewritten),
                          summary |-> Append(st.summary, ExportLine(transform))]
                    ELSE st
            IN IF transform.defined
               THEN Rewritten(ReplaceFirst(match.full, match.path, transform.newPath))
               ELSE st
    IN With(determineTransform(match.path, <<>>))

\* a variant of the third loop's body that replaces without a summary line
RawStepSilent(st, rule) ==
    IF Includes(st.updated, rule[1])
    THEN [updated |-> SplitJoin(st.updated, rule[1], rule[2]), summary |-> st.summary]
    ELSE st

\* the body of the third for loop, for one pair of RAW_PATH_REPLACEMENTS
RawStep(st, rule) ==
    IF Includes(st.updated, rule[1])
    THEN [updated |-> SplitJoin(st.updated, rule[1], rule[2]),
          summary |-> Append(st.summary, TextLine(rule[1], rule[2]))]
    ELSE st

RECURSIVE ImportLoop(_, _, _)
ImportLoop(st, matches, n) ==
    IF n > Len(matches) THEN st
    ELSE ImportLoop(ImportStep(st, matches[n]), matches, n + 1)

RECURSIVE ExportLoop(_, _, _)
ExportLoop(st, matches, n) ==
    IF n > Len(matches) THEN st
    ELSE ExportLoop(ExportStep(st, matches[n]), matches, n + 1)

RECURSIVE RawLoop(_, _, _)
RawLoop(st, rules, n) ==
    IF n > Len(rules) THEN st
    ELSE RawLoop(RawStep(st, rules[n]), rules, n + 1)

\* lines 318-330: the matches are those of the buffer before the loop
ImportPhase(st) == ImportLoop(st, IMPORT_REGEX(st.updated), 1)
\* lines 332-344
ExportPhase(st) == ExportLoop(st, EXPORT_FROM_REGEX(st.updated), 1)
\* lines 346-351
RawPhase(st) == RawLoop(st, RAW_PATH_REPLACEMENTS, 1)

transformContent(text) ==
    LET Return(st) == [updatedContent |-> st.updated, summary |-> st.summary]
    IN Return(RawPhase(ExportPhase(ImportPhase([updated |-> text, summary |-> <<>>]))))

-----------------------------------------------------------------------------
(* Input texts of the rewrite: up to MaxChunks chunks, one per line *)

MaxChunks == 2

BracesAround(name) == <<"{", SP>> \o name \o <<SP, "}">>

PathUnlistedNested == LEGACY_PREFIX \o <<"/", "Input", "/", "Foo">>
PathStyles == LEGACY_PREFIX \o <<"/", "styles.css">>
PathOther == <<"Foo">>

StatementChunks ==
    [kind : {"statement"}, keyword : {"import", "export"},
     clause : {BracesAround(AddressName), BracesAround(InputBaseName),
               BracesAround(<<"Foo">>)},
     path : {LEGACY_PREFIX, PathInput, PathUnlistedNested, PathOther}]

\* import "<path>";
SideEffectChunks ==
    [kind : {"sideEffect"}, keyword : {"import"}, clause : {<<>>}, path : {PathStyles}]

\* a line of prose or a comment that mentions a path
TextChunks ==
    [kind : {"text"}, keyword : {"/"}, clause : {<<>>},
     path : {PathInputAddressInput, PathAddress}]

Chunks == StatementChunks \cup SideEffectChunks \cup TextChunks

RenderChunk(c) ==
    IF c.kind = "statement"
    THEN <<c.keyword, SP>> \o c.clause \o <<SP, "from", SP, DQ>> \o c.path \o <<DQ, ";">>
    ELSE IF c.kind = "sideEffect"
    THEN <<c.keyword, SP, DQ>> \o c.path \o <<DQ, ";">>
    ELSE <<c.keyword, c.keyword, SP>> \o c.path

RenderChunks(cs) == Concat([n \in 1..Len(cs) |-> RenderChunk(cs[n]) \o <<NL>>])

ChunkLists == UNION {[1..n -> Chunks] : n \in 0..MaxChunks}

-----------------------------------------------------------------------------
(* Input texts of the raw pass alone: up to MaxSegments path segments *)

MaxSegments == 4

Segments == {LEGACY_PREFIX, <<"/", "Input">>, <<"/", "Address">>, <<"/", "Ether">>,
             <<"Input">>}

SegmentLists == UNION {[1..n -> Segments] : n \in 0..MaxSegments}

-----------------------------------------------------------------------------
(* The rewrite of one text, pass by pass, and a second run on its output *)

NoAnalysis == [original |-> <<>>, updated |-> <<>>, specifiers |-> <<>>,
               defaultImport |-> NoDefaultImport, appliedTransform |-> NoTransform]

MainIdle ==
    /\ files = <<>> /\ disk = <<>> /\ dryRun = FALSE /\ idx = 0
    /\ filesChanged = 0 /\ changeSummary = <<>> /\ writeCalls = <<>> /\ mpc = "idle"

MainUnchanged ==
    UNCHANGED <<files, disk, dryRun, idx, filesChanged, changeSummary, writeCalls, mpc>>

InitRewrite ==
    /\ src \in ChunkLists
    /\ content = RenderChunks(src)
    /\ updated = content /\ summary = <<>> /\ pc = "import" /\ run = 1
    /\ analysis = NoAnalysis
    /\ MainIdle

InitRaw ==
    /\ src \in SegmentLists
    /\ content = Concat(src)
    /\ updated = content /\ summary = <<>> /\ pc = "import" /\ run = 1
    /\ analysis = NoAnalysis
    /\ MainIdle

Buffer == [updated |-> updated, summary |-> summary]
Store(st) == updated' = st.updated /\ summary' = st.summary

\* lines 318-330
ImportPass ==
    /\ pc = "import"
    /\ Store(ImportPhase(Buffer))
    /\ pc' = "export"
    /\ UNCHANGED <<src, content, run, analysis>> /\ MainUnchanged

\* lines 332-344
ExportPass ==
    /\ pc = "export"
    /\ Store(ExportPhase(Buffer))
    /\ pc' = "raw"
    /\ UNCHANGED <<src, content, run, analysis>> /\ MainUnchanged

\* lines 346-353
RawPass ==
    /\ pc = "raw"
    /\ Store(RawPhase(Buffer))
    /\ pc' = "done"
    /\ UNCHANGED <<src, content, run, analysis>> /\ MainUnchanged

\* the codemod is run again on the text it returned
Rerun ==
    /\ pc = "done" /\ run = 1
    /\ content' = updated /\ summary' = <<>> /\ pc' = "import" /\ run' = 2
    /\ UNCHANGED <<src, updated, analysis>> /\ MainUnchanged

NextRewrite == ImportPass \/ ExportPass \/ RawPass \/ Rerun

SpecRewrite == InitRewrite /\ [][NextRewrite]_vars
SpecRaw == InitRaw /\ [][NextRewrite]_vars

-----------------------------------------------------------------------------
(* Claims about transformContent: SpecRewrite and SpecRaw *)

LegacyStrings == {RAW_PATH_REPLACEMENTS[n][1] : n \in 1..Len(RAW_PATH_REPLACEMENTS)}

ModernOf(legacy) ==
    RAW_PATH_REPLACEMENTS[CHOOSE n \in 1..Len(RAW_PATH_REPLACEMENTS) :
                              RAW_PATH_REPLACEMENTS[n][1] = legacy][2]

OccursAt(s, i, p) == i + Len(p) - 1 <= Len(s) /\ SubSeq(s, i, i + Len(p) - 1) = p

LongestLegacyAt(s, i) ==
    CHOOSE p \in LegacyStrings :
        /\ OccursAt(s, i, p)
        /\ \A q \in LegacyStrings : OccursAt(s, i, q) => Len(q) <= Len(p)

\* the text with, at every position where a listed legacy string occurs, the longest
\* listed legacy string that occurs there replaced by its target
RECURSIVE ReplaceLongest(_, _)
ReplaceLongest(s, i) ==
    LET At(I) ==
            IF I = {} THEN SubSeq(s, i, Len(s))
            ELSE LET Longest(j, p) ==
                         SubSeq(s, i, j - 1) \o ModernOf(p)
                         \o ReplaceLongest(s, j + Len(p))
                 IN Longest(Min(I), LongestLegacyAt(s, Min(I)))
    IN At({j \in i..Len(s) : \E p \in LegacyStrings : OccursAt(s, j, p)})

\* C1: a second run of the rewrite on the text a first run returned changes nothing
C1_Idempotent == (run = 2 /\ pc = "done") => updated = content

RuleTablePaths == {LEGACY_PREFIX} \cup NestedLegacyPaths

\* C5: a statement of the input whose path is not a path of the rule table has its
\* text unchanged in updatedContent
C5_UnlistedPathUntouched ==
    (run = 1 /\ pc = "done") =>
        \A n \in 1..Len(src) :
            (src[n].kind = "statement" /\ src[n].path \notin RuleTablePaths)
                => Includes(updated, RenderChunk(src[n]))

\* C7: the raw pass, one rule after the other, yields the text in which every listed
\* legacy string is replaced by longest match, and leaves no listed legacy string
C7_RawPassLongestMatch ==
    [][pc = "raw" =>
         /\ updated' = ReplaceLongest(updated, 1)
         /\ \A p \in LegacyStrings : ~Includes(updated', p)]_vars

\* a nested path that a shorter listed path is a prefix of, replaced whole
C7_Witness ==
    /\ pc = "done" /\ run = 1
    /\ content = PathInputAddressInput
    /\ updated = COMPONENT_TARGET

KindRank(line) ==
    IF line[1] = "import" THEN 1 ELSE IF line[1] = "export" THEN 2 ELSE 3

RawRuleIndex(line) ==
    CHOOSE n \in 1..Len(RAW_PATH_REPLACEMENTS) :
        line = TextLine(RAW_PATH_REPLACEMENTS[n][1], RAW_PATH_REPLACEMENTS[n][2])

LinesOfKind(kind) == SelectSeq(summary, LAMBDA line : line[1] = kind)

\* the import statements of the text that the analysis rewrites
RewrittenImports(text) ==
    SelectSeq(IMPORT_REGEX(text),
              LAMBDA m : analyzeImportStatement(m.full, m.path).updated # m.full)

\* the export-from statements of the text, after its import pass, that are rewritten
RewrittenExports(text) ==
    SelectSeq(EXPORT_FROM_REGEX(ImportPhase([updated |-> text, summary |-> <<>>]).updated),
              LAMBDA m : /\ determineTransform(m.path, <<>>).defined
                         /\ ReplaceFirst(m.full, m.path, COMPONENT_TARGET) # m.full)

\* C9: the summary lists import lines, then export lines, then text lines in the
\* order of the raw list, one import line per rewritten import statement and one
\* export line per rewritten export-from statement; it is
\* empty exactly when the text is returned unchanged, as it is for a text with no
\* legacy reference
C9_SummaryOrder ==
    /\ \A i, j \in 1..Len(summary) :
          i < j => /\ KindRank(summary[i]) <= KindRank(summary[j])
                   /\ (KindRank(summary[i]) = 3
                         => RawRuleIndex(summary[i]) < RawRuleIndex(summary[j]))
    /\ pc = "export" => \A i \in 1..Len(summary) : KindRank(summary[i]) = 1
    /\ pc = "raw" => \A i \in 1..Len(summary) : KindRank(summary[i]) <= 2
    /\ pc # "import" => Len(LinesOfKind("import")) = Len(RewrittenImports(content))
    /\ pc \in {"raw", "done"}
          => Len(LinesOfKind("export")) = Len(RewrittenExports(content))
    /\ pc = "done" => ((summary = <<>>) <=> (updated = content))
    /\ (pc = "done" /\ ~Includes(content, LEGACY_PREFIX))
          => (summary = <<>> /\ updated = content)

C9_Witness ==
    /\ pc = "done" /\ run = 1 /\ Len(summary) = 2
    /\ KindRank(summary[1]) = 1 /\ KindRank(summary[2]) = 3

AsImport(chunk) == [chunk EXCEPT !.keyword = "import"]

\* C10: an export-from statement is rewritten as the import statement with the same
\* clause and path is
C10_ExportRewrittenLikeImport ==
    (run = 1 /\ pc = "done" /\ Len(src) = 1 /\ src[1].kind = "statement"
       /\ src[1].keyword = "export")
    => updated = ReplaceFirst(
                     transformContent(RenderChunks(<<AsImport(src[1])>>)).updatedContent,
                     <<"import">>, <<"export">>)

-----------------------------------------------------------------------------
(* Input statements of analyzeImportStatement: an optional default binding, a  *)
(* brace clause of up to MaxEntries entries, an optional trailing comma, a path *)

MaxEntries == 2

EntryNames == {InputBaseName, AddressName, <<"Foo">>, <<"constructor">>}

\* Name
PlainEntries ==
    [isType : {FALSE}, imported : EntryNames, hasAlias : {FALSE}, alias : {<<>>},
     lead : {<<SP>>}, typeGap : {<<>>}, asGap : {<<>>}, aliasGap : {<<>>},
     trail : {<<SP>>}]

\* Name  as<newline>Bar, on a line of its own
AliasedEntries ==
    [isType : {FALSE}, imported : EntryNames, hasAlias : {TRUE}, alias : {<<"Bar">>},
     lead : {<<NL, SP, SP>>}, typeGap : {<<>>}, asGap : {<<SP, SP>>}, aliasGap : {<<NL>>},
     trail : {<<>>}]

\* type  Name
TypeEntries ==
    [isType : {TRUE}, imported : EntryNames, hasAlias : {FALSE}, alias : {<<>>},
     lead : {<<SP>>}, typeGap : {<<SP, SP>>}, asGap : {<<>>}, aliasGap : {<<>>},
     trail : {<<>>}]

\* type InputBase as Bar
TypeAliasedEntries ==
    [isType : {TRUE}, imported : {InputBaseName}, hasAlias : {TRUE}, alias : {<<"Bar">>},
     lead : {<<SP>>}, typeGap : {<<SP>>}, asGap : {<<SP>>}, aliasGap : {<<SP>>},
     trail : {<<SP>>}]

EntryShapes == PlainEntries \cup AliasedEntries \cup TypeEntries \cup TypeAliasedEntries

EntryLists == UNION {[1..n -> EntryShapes] : n \in 0..MaxEntries}

Statements ==
    {s \in [default : {<<>>, AddressName}, entries : EntryLists,
            trailingComma : BOOLEAN,
            path : {LEGACY_PREFIX, PathInput, PathUnlistedNested, PathOther}] :
        s.trailingComma => Len(s.entries) > 0}

\* the text of one entry of the clause, with the comma that follows it
RenderEntry(e, comma) ==
    e.lead
    \o (IF e.isType THEN <<"type">> \o e.typeGap ELSE <<>>)
    \o e.imported
    \o (IF e.hasAlias THEN e.asGap \o <<"as">> \o e.aliasGap \o e.alias ELSE <<>>)
    \o e.trail \o comma

\* the pieces of the clause: its entries, then the filler after a trailing comma
ClausePieces(s) ==
    [n \in 1..Len(s.entries) |->
        RenderEntry(s.entries[n],
                    IF n < Len(s.entries) \/ s.trailingComma THEN <<",">> ELSE <<>>)]
    \o (IF s.trailingComma THEN << <<NL>> >> ELSE <<>>)

RenderStatement(s) ==
    <<"import", SP>>
    \o (IF s.default # <<>> THEN s.default \o <<",", SP>> ELSE <<>>)
    \o <<"{">> \o Concat(ClausePieces(s)) \o <<"}">>
    \o <<SP, "from", SP, DQ>> \o s.path \o <<DQ, ";">>

InitAnalyze ==
    /\ src \in Statements
    /\ content = RenderStatement(src)
    /\ updated = content /\ summary = <<>> /\ pc = "analyze" /\ run = 1
    /\ analysis = NoAnalysis
    /\ MainIdle

\* transformContent, line 322: the analysis of the matched statement
Analyze ==
    /\ pc = "analyze"
    /\ analysis' = analyzeImportStatement(content, src.path)
    /\ pc' = "analyzed"
    /\ UNCHANGED <<src, content, updated, summary, run>> /\ MainUnchanged

\* transformContent, lines 325-329: the statement is replaced in the buffer
Replace ==
    /\ pc = "analyzed"
    /\ IF analysis.appliedTransform.defined /\ analysis.updated # content
       THEN /\ updated' = ReplaceFirst(updated, content, analysis.updated)
            /\ summary' = Append(summary, ImportLine(analysis.appliedTransform))
       ELSE UNCHANGED <<updated, summary>>
    /\ pc' = "replaced"
    /\ UNCHANGED <<src, content, run, analysis>> /\ MainUnchanged

NextAnalyze == Analyze \/ Replace

SpecAnalyze == InitAnalyze /\ [][NextAnalyze]_vars

-----------------------------------------------------------------------------
(* Claims about one import statement: SpecAnalyze *)

Analyzed == pc \in {"analyzed", "replaced"}
Applied == analysis.appliedTransform.defined

\* the names the statement refers to, as it was generated
ReferencedNames ==
    {src.entries[n].imported : n \in 1..Len(src.entries)}
    \cup (IF src.default # <<>> THEN {src.default} ELSE {})

\* the name an entry binds in the importing file
LocalName(hasAlias, alias, imported) == IF hasAlias THEN alias ELSE imported

\* the clause of the rewritten statement, parsed again
RewrittenEntries == parseNamedImports(NamedSectionMatch(analysis.updated).inner).entries
RewrittenSpecs == SelectSeq(RewrittenEntries, LAMBDA e : e.hasSpec)

\* C2: each entry binds the same local name before and after the rewrite; an
\* InputBase entry imports BaseInput, keeps its alias or takes InputBase as alias,
\* and keeps its type marker
C2_LocalBindingsPreserved ==
    (Analyzed /\ Applied) =>
        /\ Len(RewrittenSpecs) = Len(src.entries)
        /\ \A n \in 1..Len(src.entries) :
              LET before == src.entries[n]
                  after == RewrittenSpecs[n]
              IN /\ LocalName(after.hasAlias, after.alias, after.imported)
                      = LocalName(before.hasAlias, before.alias, before.imported)
                 /\ before.imported = InputBaseName =>
                       /\ after.imported = BaseInputName
                       /\ after.hasAlias
                       /\ after.isType = before.isType

\* the part of C2 about the entries named InputBase alone
InputBaseEntriesRenamed ==
    (Analyzed /\ Applied) =>
        /\ Len(RewrittenSpecs) = Len(src.entries)
        /\ \A n \in 1..Len(src.entries) :
              src.entries[n].imported = InputBaseName =>
                  /\ RewrittenSpecs[n].imported = BaseInputName
                  /\ RewrittenSpecs[n].hasAlias
                  /\ RewrittenSpecs[n].alias
                       = LocalName(src.entries[n].hasAlias, src.entries[n].alias,
                                   InputBaseName)
                  /\ RewrittenSpecs[n].isType = src.entries[n].isType

\* C3: a transform is resolved exactly for the bare path with a legacy component
\* among the names referred to, and for the listed nested paths; otherwise the
\* statement is returned as it was; the new path is the target package
C3_TransformDecision ==
    Analyzed =>
        /\ Applied <=>
              \/ /\ src.path = LEGACY_PREFIX
                 /\ ReferencedNames \cap LEGACY_COMPONENT_SPECIFIERS # {}
              \/ src.path \in {PathInput, PathInputAddressInput, PathInputEtherInput,
                               PathAddressAddress, PathAddress}
        /\ ~Applied => analysis.updated = content
        /\ Applied => /\ analysis.appliedTransform.newPath = COMPONENT_TARGET
                      /\ Includes(analysis.updated, <<DQ>> \o COMPONENT_TARGET \o <<DQ>>)

C3_Witness ==
    /\ Analyzed /\ Applied
    /\ src.path = LEGACY_PREFIX /\ src.default = <<>>
    /\ Len(src.entries) = 2
    /\ src.entries[1].imported = <<"Foo">> /\ src.entries[2].imported = AddressName

\* C4: the entries that are not renamed, and the filler, are in the rewritten
\* clause byte for byte as they were in the original clause
C4_UnrenamedEntriesVerbatim ==
    (Analyzed /\ Applied) =>
        /\ Len(RewrittenEntries) = Len(ClausePieces(src))
        /\ \A n \in 1..Len(ClausePieces(src)) :
              (n > Len(src.entries)
                 \/ src.entries[n].imported \notin DOMAIN COMPONENT_SPECIFIER_RENAMES)
              => RewrittenEntries[n].raw = ClausePieces(src)[n]

-----------------------------------------------------------------------------
(* main and processFile: the files of filesToProcess, in order *)

MaxFiles == 2

\* contents a file can have: an import the codemod rewrites, an import it leaves
\* alone, and prose that mentions a legacy path
FileTexts ==
    {RenderChunks(<<[kind |-> "statement", keyword |-> "import",
                     clause |-> BracesAround(AddressName), path |-> LEGACY_PREFIX]>>),
     RenderChunks(<<[kind |-> "statement", keyword |-> "import",
                     clause |-> BracesAround(<<"Foo">>), path |-> PathOther]>>),
     RenderChunks(<<[kind |-> "text", keyword |-> "/", clause |-> <<>>,
                     path |-> PathAddress]>>)}

FileLists == UNION {[1..n -> FileTexts] : n \in 0..MaxFiles}

RewriteIdle ==
    /\ src = <<>> /\ content = <<>> /\ updated = <<>> /\ summary = <<>>
    /\ pc = "idle" /\ run = 0 /\ analysis = NoAnalysis

RewriteUnchanged == UNCHANGED <<src, content, updated, summary, pc, run, analysis>>

InitMain ==
    /\ files \in FileLists
    /\ disk = files
    /\ dryRun \in BOOLEAN
    /\ idx = 1 /\ filesChanged = 0 /\ changeSummary = <<>> /\ writeCalls = <<>>
    /\ mpc = "start"
    /\ RewriteIdle

\* a variant that writes every changed file, dry run or not
ShouldWriteAlways(changed, dry) == changed

\* line 307: if (changed && !dryRun)
ShouldWrite(changed, dry) == changed /\ ~dry

\* processFile, when neither fs.readFile nor fs.writeFile fails
processFile(originalContent, dry) ==
    LET With(result) ==
            [changed |-> result.updatedContent # originalContent,
             summary |-> result.summary,
             updatedContent |-> result.updatedContent,
             writes |-> ShouldWrite(result.updatedContent # originalContent, dry)]
    IN With(transformContent(originalContent))

\* line 244: `${path.relative(process.cwd(), filePath)}: ${line}`
FileLines(n, lines) == [k \in 1..Len(lines) |-> <<"file", ToString(n), ": ">> \o lines[k]]

\* lines 228-236
Start ==
    /\ mpc = "start"
    /\ mpc' = IF Len(files) = 0 THEN "done" ELSE "loop"
    /\ UNCHANGED <<files, disk, dryRun, idx, filesChanged, changeSummary, writeCalls>>
    /\ RewriteUnchanged

\* lines 238-248, one turn of the loop in which processFile returns
ProcessFile ==
    /\ mpc = "loop" /\ idx <= Len(files)
    /\ LET Done(r) ==
              /\ disk' = IF r.writes THEN [disk EXCEPT ![idx] = r.updatedContent]
                         ELSE disk
              /\ writeCalls' = IF r.writes THEN Append(writeCalls, idx) ELSE writeCalls
              /\ filesChanged' = IF r.changed THEN filesChanged + 1 ELSE filesChanged
              /\ changeSummary' = IF r.changed
                                  THEN changeSummary \o FileLines(idx, r.summary)
                                  ELSE changeSummary
       IN Done(processFile(disk[idx], dryRun))
    /\ idx' = idx + 1
    /\ UNCHANGED <<files, dryRun, mpc>>
    /\ RewriteUnchanged

\* line 300: fs.readFile rejects; processFile and main reject, and the handler of
\* lines 544-548 ends the run
ReadFails ==
    /\ mpc = "loop" /\ idx <= Len(files)
    /\ mpc' = "failed"
    /\ UNCHANGED <<files, disk, dryRun, idx, filesChanged, changeSummary, writeCalls>>
    /\ RewriteUnchanged

\* line 308: fs.writeFile rejects, the file left as it was or truncated; the run
\* ends as for a read
WriteFails ==
    /\ mpc = "loop" /\ idx <= Len(files)
    /\ processFile(disk[idx], dryRun).writes
    /\ writeCalls' = Append(writeCalls, idx)
    /\ disk' \in {disk, [disk EXCEPT ![idx] = <<>>]}
    /\ mpc' = "failed"
    /\ UNCHANGED <<files, dryRun, idx, filesChanged, changeSummary>>
    /\ RewriteUnchanged

\* lines 250-260
Report ==
    /\ mpc = "loop" /\ idx > Len(files)
    /\ mpc' = "done"
    /\ UNCHANGED <<files, disk, dryRun, idx, filesChanged, changeSummary, writeCalls>>
    /\ RewriteUnchanged

NextMain == Start \/ ProcessFile \/ ReadFails \/ WriteFails \/ Report

SpecMain == InitMain /\ [][NextMain]_vars

-----------------------------------------------------------------------------
(* Claims about main and processFile: SpecMain *)

\* C6: when the run ends, every file of the list has been processed, whether or
\* not reading or writing one of them failed
C6_EveryFileProcessed == mpc \in {"done", "failed"} => idx > Len(files)

Differs(n) == transformContent(files[n]).updatedContent # files[n]

WrittenFiles == {writeCalls[k] : k \in 1..Len(writeCalls)}

\* C8: a file is written exactly when the run is not a dry run and its rewritten
\* content differs; a dry run writes nothing; filesChanged counts the files whose
\* rewritten content differs
C8_DryRunWritesNothing ==
    /\ dryRun => (writeCalls = <<>> /\ disk = files)
    /\ \A n \in WrittenFiles : ~dryRun /\ Differs(n)
    /\ \A n \in 1..Len(files) :
          n < idx => /\ (n \in WrittenFiles) <=> (~dryRun /\ Differs(n))
                     /\ (n \in WrittenFiles) => disk[n] = transformContent(files[n]).updatedContent
                     /\ (n \notin WrittenFiles) => disk[n] = files[n]
    /\ mpc # "start" => filesChanged = Cardinality({n \in 1..(idx - 1) : Differs(n)})
    /\ mpc = "done" => filesChanged = Cardinality({n \in 1..Len(files) : Differs(n)})

C8_Witness ==
    /\ mpc = "done" /\ dryRun /\ Len(files) = 2
    /\ filesChanged = 1 /\ writeCalls = <<>>

=============================================================================
